---- MODULE Spec2Model ----
(***************************************************************************)
(* Leave Policy Assignment (hrms/hr/doctype/leave_policy_assignment).      *)
(*                                                                         *)
(* Three specifications over one set of variables:                         *)
(*   Spec      the document store: save / submit of single assignments and *)
(*             create_assignment_for_multiple_employees, with the          *)
(*             transaction (uncommitted view `db`, committed view          *)
(*             `committed`);                                               *)
(*   SpecGrant grant_leave_alloc_for_employee run by several requests on   *)
(*             the same store, one step per read or write;                 *)
(*   SpecCalc  the allocation arithmetic (get_new_leaves and the functions *)
(*             it calls) applied to inputs drawn from bounded sets.        *)
(*                                                                         *)
(* Quantities of leave are fixed-point integers: a quantity of q leaves is *)
(* the integer q * Scale.  Dates are days of the Gregorian calendar,        *)
(* written as the integer yyyymmdd.                                        *)
(***************************************************************************)
EXTENDS Integers, Sequences, FiniteSets, TLC

VARIABLES
    \* ---- Spec: the document store and the bulk request
    db,            \* the store as the running transaction sees it
    committed,     \* the store as of the last commit
    pc,            \* create_assignment_for_multiple_employees: position
    employees,     \* ... the employees still to process
    data,          \* ... the shared assignment data
    docs_name,     \* ... the identities collected so far
    bulkDocs,      \* ... every assignment the call has inserted (history)
    last,          \* the last request: the assignment validated, the outcome
    \* ---- SpecGrant: concurrent grant_leave_alloc_for_employee requests
    flag,          \* leaves_allocated of each assignment, in the store
    allocs,        \* Leave Allocation records in the store
    gpc,           \* position of each request
    gdoc,          \* the assignment each request works on
    gidx,          \* index of the policy detail a request is at
    gpassed,       \* requests that read leaves_allocated as unset (history)
    glate,         \* requests started after another one completed (history)
    \* ---- SpecCalc: the allocation arithmetic
    cin,           \* the inputs of one calculation
    cout           \* its results, once computed

vars == <<db, committed, pc, employees, data, docs_name, bulkDocs, last,
          flag, allocs, gpc, gdoc, gidx, gpassed, glate, cin, cout>>

storeVars == <<db, committed, pc, employees, data, docs_name, bulkDocs, last>>
grantVars == <<flag, allocs, gpc, gdoc, gidx, gpassed, glate>>
calcVars  == <<cin, cout>>

-----------------------------------------------------------------------------
(* Configuration read from the framework.                                  *)

\* System Settings.float_precision (decimal digits), read on line 224.
FloatPrecision == 3

\* Precision of Leave Allocation.new_leaves_allocated, read on lines 134-136.
FieldPrecision == 3

RECURSIVE Pow10(_)
Pow10(n) == IF n = 0 THEN 1 ELSE 10 * Pow10(n - 1)

\* One leave, in fixed-point units: one digit finer than either precision,
\* so that rounding to the precision is not the identity.
Scale == Pow10((IF FloatPrecision > FieldPrecision THEN FloatPrecision
                                                   ELSE FieldPrecision) + 1)

-----------------------------------------------------------------------------
(* Dates (frappe.utils).                                                   *)

\* A date is the integer yyyymmdd.
Date(y, m, d) == (y * 100 + m) * 100 + d

year(date) == date \div 10000

month(date) == (date \div 100) % 100

day(date) == date % 100

IsLeap(y) == (y % 4 = 0 /\ y % 100 # 0) \/ y % 400 = 0

DaysInMonth(y, m) ==
    CASE m \in {1, 3, 5, 7, 8, 10, 12} -> 31
      [] m \in {4, 6, 9, 11}           -> 30
      [] OTHER                         -> IF IsLeap(y) THEN 29 ELSE 28

RECURSIVE DaysBeforeMonth(_, _)
DaysBeforeMonth(y, m) ==
    IF m = 1 THEN 0 ELSE DaysBeforeMonth(y, m - 1) + DaysInMonth(y, m - 1)

\* The proleptic Gregorian ordinal of a date (date.toordinal()).
Ordinal(d) ==
    LET y == year(d) - 1
    IN  365 * y + (y \div 4) - (y \div 100) + (y \div 400)
        + DaysBeforeMonth(year(d), month(d)) + day(d)

\* date_diff(a, b): days from b to a.
date_diff(a, b) == Ordinal(a) - Ordinal(b)

\* Comparison of dates: the decimal code orders as the calendar does.
DateLT(a, b) == a < b

DateLE(a, b) == a <= b

get_first_day(d) == Date(year(d), month(d), 1)

get_last_day(d) == Date(year(d), month(d), DaysInMonth(year(d), month(d)))

\* add_months(d, n): the same day n months later, the day clamped to the
\* length of the month reached.
add_months(d, n) ==
    LET k  == (year(d) * 12 + (month(d) - 1)) + n
        y  == k \div 12
        m  == (k % 12) + 1
        dm == DaysInMonth(y, m)
    IN  Date(y, m, IF day(d) > dm THEN dm ELSE day(d))

-----------------------------------------------------------------------------
(* Numbers (frappe.utils.flt, math.ceil).                                  *)

\* The rational num/den (den # 0) rounded to `precision` decimal digits, half
\* up, as a fixed-point integer.  num is already in fixed-point units.
RoundRatio(num, den, precision) ==
    LET unit == Scale \div Pow10(precision)
        n    == IF den < 0 THEN -num ELSE num
        d    == IF den < 0 THEN -den ELSE den
    IN  unit * ((2 * n + unit * d) \div (2 * unit * d))

\* flt(x, precision) of a fixed-point x.
flt(x, precision) == RoundRatio(x, 1, precision)

\* math.ceil of a fixed-point x (the result again fixed-point).
ceil(x) == Scale * (-((-x) \div Scale))

-----------------------------------------------------------------------------
(* Leave types (get_leave_type_details) and the leave policy.              *)

NoBasis == ""

LeaveType(name, lwp, earned, comp, aod) ==
    [name |-> name, is_lwp |-> lwp, is_earned_leave |-> earned,
     is_compensatory |-> comp, allocate_on_day |-> aod,
     earned_leave_frequency |-> "Monthly", rounding |-> ""]

AllocateOnDays == {"Date of Joining", "First Day", "Last Day"}

\* The non-LWP leave types the calculation is applied to.
CalcLeaveTypes ==
    {LeaveType("Casual", 0, 0, 0, "")}
    \cup {LeaveType("Earned", 0, 1, 0, aod) : aod \in AllocateOnDays}
    \cup {LeaveType("Compensatory", 0, 0, 1, ""),
          LeaveType("Compensatory Earned", 0, 1, 1, "First Day")}

-----------------------------------------------------------------------------
(* The allocation arithmetic.  `self` is the assignment; `today` is        *)
(* frappe.flags.current_date or getdate().                                 *)

\* hrms.hr.utils.get_monthly_earned_leave: the annual allocation normalised
\* to the accrual frequency and the rounding rule of the leave type.
get_monthly_earned_leave(annual_leaves, frequency, rounding) ==
    LET divide_by_frequency ==
            CASE frequency = "Yearly"    -> 1
              [] frequency = "Quarterly" -> 4
              [] OTHER                   -> 12
        earned_leaves ==
            RoundRatio(annual_leaves, divide_by_frequency, FloatPrecision + 1)
    IN  CASE rounding = "0.5" -> (Scale \div 2) * ((2 * earned_leaves + (Scale \div 2)) \div Scale)
          [] rounding = "1.0" -> Scale * ((2 * earned_leaves + Scale) \div (2 * Scale))
          [] OTHER            -> earned_leaves

is_earned_leave_applicable_for_current_month(date_of_joining, allocate_on_day, today) ==
    LET date == today
    IN  \/ (allocate_on_day = "Date of Joining" /\ day(date) >= day(date_of_joining))
        \/ (allocate_on_day = "First Day" /\ DateLE(get_first_day(date), date))
        \/ (allocate_on_day = "Last Day" /\ date = get_last_day(date))

\* Mutant of ReferenceDate: the reference date is not clamped.
ReferenceDate_NoClamp(self, today) == today

\* current_date of get_leaves_for_passed_months: today, clamped to effective_to.
ReferenceDate(self, today) ==
    IF DateLT(self.effective_to, today) THEN self.effective_to ELSE today

\* from_date of get_leaves_for_passed_months.
FromDate(self, date_of_joining) ==
    IF DateLT(self.effective_from, date_of_joining) THEN date_of_joining
    ELSE self.effective_from

\* months_passed of get_leaves_for_passed_months.
months_passed(self, leave_details, date_of_joining, today) ==
    LET current_date == ReferenceDate(self, today)
        from_date    == FromDate(self, date_of_joining)
        plus == IF is_earned_leave_applicable_for_current_month(
                       date_of_joining, leave_details.allocate_on_day, today)
                THEN 1 ELSE 0
    IN  IF year(current_date) = year(from_date) /\ month(current_date) >= month(from_date)
        THEN (month(current_date) - month(from_date)) + plus
        ELSE IF year(current_date) > year(from_date)
        THEN ((12 - month(from_date)) + month(current_date)) + plus
        ELSE 0

get_leaves_for_passed_months(self, new_leaves_allocated, leave_details, date_of_joining, today) ==
    LET mp == months_passed(self, leave_details, date_of_joining, today)
    IN  IF mp > 0
        THEN get_monthly_earned_leave(new_leaves_allocated,
                 leave_details.earned_leave_frequency, leave_details.rounding) * mp
        ELSE 0

\* period_end_date of get_pro_rated_leaves.
PeriodEndDate(self, date_of_joining, leave_details, today) ==
    LET date == today
    IN  IF leave_details.is_earned_leave = 1
        THEN IF is_earned_leave_applicable_for_current_month(
                    date_of_joining, leave_details.allocate_on_day, today)
             THEN get_last_day(date)
             ELSE get_last_day(add_months(date, -1))
        ELSE self.effective_to

\* Mutant of calculate_pro_rated_leaves: the day counts are not inclusive.
calculate_pro_rated_leaves_Exclusive(leaves, date_of_joining, period_start_date, period_end_date) ==
    LET actual_period   == date_diff(period_end_date, date_of_joining)
        complete_period == date_diff(period_end_date, period_start_date) + 1
    IN  RoundRatio(leaves * actual_period, complete_period, FloatPrecision)

\* calculate_pro_rated_leaves; complete_period = 0 is a ZeroDivisionError,
\* see ProRataRaises.
calculate_pro_rated_leaves(leaves, date_of_joining, period_start_date, period_end_date) ==
    LET actual_period   == date_diff(period_end_date, date_of_joining) + 1
        complete_period == date_diff(period_end_date, period_start_date) + 1
    IN  RoundRatio(leaves * actual_period, complete_period, FloatPrecision)

\* Whether get_pro_rated_leaves pro-rates at all (the negation of line 198).
ProRates(self, date_of_joining, new_leaves_allocated) ==
    ~(new_leaves_allocated = 0 \/ DateLE(date_of_joining, self.effective_from))

\* Whether the division on line 228 is a division by zero.
ProRataRaises(self, date_of_joining, leave_details, new_leaves_allocated, today) ==
    /\ ProRates(self, date_of_joining, new_leaves_allocated)
    /\ date_diff(PeriodEndDate(self, date_of_joining, leave_details, today),
                 self.effective_from) + 1 = 0

get_pro_rated_leaves(self, date_of_joining, leave_details, new_leaves_allocated, today) ==
    IF ~ProRates(self, date_of_joining, new_leaves_allocated)
    THEN new_leaves_allocated
    ELSE LET prorated == calculate_pro_rated_leaves(
                             new_leaves_allocated, date_of_joining, self.effective_from,
                             PeriodEndDate(self, date_of_joining, leave_details, today))
         IN  IF leave_details.is_earned_leave # 1 THEN ceil(prorated) ELSE prorated

\* Mutant of BaseLeaves: the compensatory case is missing.
BaseLeaves_NoCompensatoryCase(self, new_leaves_allocated, leave_details, date_of_joining, today) ==
    IF leave_details.is_earned_leave = 1
    THEN IF self.assignment_based_on = NoBasis THEN 0
         ELSE get_leaves_for_passed_months(self, new_leaves_allocated, leave_details,
                                           date_of_joining, today)
    ELSE new_leaves_allocated

\* new_leaves_allocated of get_new_leaves before pro-ration (lines 139-149).
BaseLeaves(self, new_leaves_allocated, leave_details, date_of_joining, today) ==
    IF leave_details.is_compensatory = 1 THEN 0
    ELSE IF leave_details.is_earned_leave = 1
    THEN IF self.assignment_based_on = NoBasis THEN 0
         ELSE get_leaves_for_passed_months(self, new_leaves_allocated, leave_details,
                                           date_of_joining, today)
    ELSE new_leaves_allocated

get_new_leaves_raises(self, new_leaves_allocated, leave_details, date_of_joining, today) ==
    ProRataRaises(self, date_of_joining, leave_details,
        BaseLeaves(self, new_leaves_allocated, leave_details, date_of_joining, today), today)

get_new_leaves(self, new_leaves_allocated, leave_details, date_of_joining, today) ==
    flt(get_pro_rated_leaves(self, date_of_joining, leave_details,
            BaseLeaves(self, new_leaves_allocated, leave_details, date_of_joining, today),
            today),
        FieldPrecision)

-----------------------------------------------------------------------------
(* SpecCalc: the arithmetic applied to bounded inputs.                     *)

\* Dates the inputs are drawn from: starts, ends and middles of months, in
\* two calendar years.
SampleDates ==
    {Date(2023, 1, 1), Date(2023, 4, 15), Date(2023, 4, 30), Date(2023, 6, 30),
     Date(2023, 7, 1), Date(2023, 7, 15), Date(2023, 12, 31), Date(2024, 1, 15)}

\* Annual allocations the inputs are drawn from, in tenths of a leave.
MaxAnnualTenths == 240
SampleAnnualTenths == {0, 1, 5, MaxAnnualTenths}

Bases == {NoBasis, "Leave Period", "Joining Date"}

\* One input of the calculation.
CalcInput(t, ld, j, b, f, e, n) ==
    [annual |-> (t * Scale) \div 10, leave_details |-> ld, date_of_joining |-> j,
     self |-> [assignment_based_on |-> b, effective_from |-> f, effective_to |-> e],
     today |-> n]

\* The assignments set_dates can produce: with the "Joining Date" basis
\* effective_from is the join date; otherwise the range is as supplied, a
\* period with effective_from <= effective_to.
CalcInputOK(i) ==
    IF i.self.assignment_based_on = "Joining Date"
    THEN i.self.effective_from = i.date_of_joining
    ELSE DateLE(i.self.effective_from, i.self.effective_to)

NoResult ==
    [done |-> FALSE, raised |-> FALSE, new_leaves |-> 0,
     pro_raised |-> FALSE, pro_rated |-> 0, months_passed |-> 0, passed_months |-> 0]

\* One evaluation of get_new_leaves, and of get_pro_rated_leaves and
\* get_leaves_for_passed_months on the same inputs (the quantity handed to
\* them being the annual allocation).
Calculate ==
    /\ ~cout.done
    /\ LET s  == cin.self
           ld == cin.leave_details
           j  == cin.date_of_joining
           q  == cin.annual
           n  == cin.today
           r  == get_new_leaves_raises(s, q, ld, j, n)
           pr == ProRataRaises(s, j, ld, q, n)
       IN  cout' = [done          |-> TRUE,
                    raised        |-> r,
                    new_leaves    |-> IF r THEN 0 ELSE get_new_leaves(s, q, ld, j, n),
                    pro_raised    |-> pr,
                    pro_rated     |-> IF pr THEN 0 ELSE get_pro_rated_leaves(s, j, ld, q, n),
                    months_passed |-> months_passed(s, ld, j, n),
                    passed_months |-> get_leaves_for_passed_months(s, q, ld, j, n)]
    /\ UNCHANGED <<cin, storeVars, grantVars>>

-----------------------------------------------------------------------------
(* Spec: the document store.                                               *)
(*                                                                         *)
(* The framework's document lifecycle, as the controller's hooks rely on   *)
(* it: Document.save() of a new document runs validate() and inserts the   *)
(* row with docstatus 0; Document.submit() runs validate(), writes the row *)
(* with docstatus 1 and then runs on_submit().  A request whose exception  *)
(* is not caught is rolled back; frappe.throw raises ValidationError.      *)

\* The employees, in the order a list of them is handed over.
EmployeeOrder == <<"EMP-1", "EMP-2", "EMP-3">>
EmployeeNames == {EmployeeOrder[i] : i \in DOMAIN EmployeeOrder}

\* Employee.date_of_joining (read on lines 39 and 87).
date_of_joining(employee) ==
    CASE employee = "EMP-1" -> Date(2023, 1, 1)
      [] employee = "EMP-2" -> Date(2023, 7, 1)
      [] OTHER              -> Date(2024, 1, 15)

\* Leave Period.from_date, to_date (read on lines 35-37).
LeavePeriodDates(leave_period) == <<Date(2023, 1, 1), Date(2023, 12, 31)>>

\* The date ranges a user supplies: periods with from <= to, which share
\* exactly one day.
SuppliedRanges ==
    {<<Date(2023, 1, 1), Date(2023, 6, 30)>>,
     <<Date(2023, 6, 30), Date(2023, 12, 31)>>}

\* frappe.flags.current_date or getdate(), while the store is exercised.
StoreToday == Date(2023, 7, 15)

LeaveTypeDetails(name) ==
    CASE name = "Casual"            -> LeaveType("Casual", 0, 0, 0, "")
      [] name = "Leave Without Pay" -> LeaveType("Leave Without Pay", 1, 0, 0, "")
      [] OTHER                      -> LeaveType("Earned", 0, 1, 0, "First Day")

\* leave_policy.leave_policy_details, in order.
LeavePolicyDetails ==
    << [leave_type |-> "Casual",            annual_allocation |-> 12 * Scale],
       [leave_type |-> "Leave Without Pay", annual_allocation |-> 0],
       [leave_type |-> "Earned",            annual_allocation |-> 24 * Scale] >>

\* The details line 92 lets through.
IsNotLwp(detail) == LeaveTypeDetails(detail.leave_type).is_lwp # 1
GrantedDetails == SelectSeq(LeavePolicyDetails, IsNotLwp)

\* frappe.new_doc with the fields of lines 260-266; the document is named
\* when it is inserted, before validate() runs.
NewAssignment(name, employee, d) ==
    [name |-> name, employee |-> employee,
     assignment_based_on |-> d.assignment_based_on,
     effective_from |-> d.effective_from, effective_to |-> d.effective_to,
     leave_period |-> d.leave_period,
     docstatus |-> 0, leaves_allocated |-> 0]

AssignmentData ==
    {[assignment_based_on |-> b, effective_from |-> r[1], effective_to |-> r[2],
      leave_period |-> "LP-2023"] : b \in Bases, r \in SuppliedRanges}

EmptyStore == [assignments |-> <<>>, allocations |-> {}]

Docs(store) == {store.assignments[i] : i \in DOMAIN store.assignments}

set_dates(self) ==
    IF self.assignment_based_on = "Leave Period"
    THEN [self EXCEPT !.effective_from = LeavePeriodDates(self.leave_period)[1],
                      !.effective_to   = LeavePeriodDates(self.leave_period)[2]]
    ELSE IF self.assignment_based_on = "Joining Date"
    THEN [self EXCEPT !.effective_from = date_of_joining(self.employee)]
    ELSE self

\* Mutant of OverlapFilter: the comparison with effective_from is strict.
OverlapFilter_Strict(self, a) ==
    /\ a.employee = self.employee
    /\ a.name # self.name
    /\ a.docstatus = 1
    /\ DateLT(self.effective_from, a.effective_to)
    /\ DateLE(a.effective_from, self.effective_to)

\* The frappe.get_all filter of validate_policy_assignment_overlap.
OverlapFilter(self, a) ==
    /\ a.employee = self.employee
    /\ a.name # self.name
    /\ a.docstatus = 1
    /\ DateLE(self.effective_from, a.effective_to)
    /\ DateLE(a.effective_from, self.effective_to)

\* validate_policy_assignment_overlap throws iff this set is not empty.
leave_policy_assignments(self, store) == {a \in Docs(store) : OverlapFilter(self, a)}

\* validate(): the assignment with its dates set, and whether it throws.
validate(self, store) ==
    LET s == set_dates(self)
    IN  [doc |-> s, throws |-> leave_policy_assignments(s, store) # {}]

\* The Leave Allocation create_leave_allocation saves for one policy detail.
create_leave_allocation(self, detail) ==
    LET leave_details == LeaveTypeDetails(detail.leave_type)
    IN  [employee |-> self.employee, leave_type |-> leave_details.name,
         from_date |-> self.effective_from, to_date |-> self.effective_to,
         new_leaves_allocated |->
             get_new_leaves(self, detail.annual_allocation, leave_details,
                            date_of_joining(self.employee), StoreToday),
         leave_policy_assignment |-> self.name]

\* The allocations of the first k details that are not LWP.
AllocationsOf(self, k) ==
    {create_leave_allocation(self, GrantedDetails[i]) : i \in 1..k}

WriteDoc(store, doc) ==
    [store EXCEPT !.assignments =
        IF doc.name \in DOMAIN store.assignments
        THEN [store.assignments EXCEPT ![doc.name] = doc]
        ELSE Append(store.assignments, doc)]

\* grant_leave_alloc_for_employee run to its end inside one request.  failAt
\* = 0: no allocation is refused; failAt = k > 0: saving the k-th allocation
\* raises a ValidationError (Leave Allocation's own validation), the k - 1
\* before it having been saved and submitted.
grant_leave_alloc_for_employee(self, store, failAt) ==
    IF self.leaves_allocated = 1
    THEN [store |-> store, throws |-> TRUE]
    ELSE IF failAt > 0
    THEN [store  |-> [store EXCEPT !.allocations = @ \cup AllocationsOf(self, failAt - 1)],
          throws |-> TRUE]
    ELSE [store  |-> WriteDoc([store EXCEPT !.allocations =
                                   @ \cup AllocationsOf(self, Len(GrantedDetails))],
                              [self EXCEPT !.leaves_allocated = 1]),
          throws |-> FALSE]

\* Document.submit() after validate() has passed: the row is written with
\* docstatus 1, then on_submit() runs.
on_submit(self, store, failAt) ==
    LET submitted == [self EXCEPT !.docstatus = 1]
    IN  grant_leave_alloc_for_employee(submitted, WriteDoc(store, submitted), failAt)

\* ---- requests on a single assignment

\* Assignments saved one at a time.
MaxSingles == 1

NoRequest == [op |-> "none"]

\* A user saves a new assignment as a draft: Document.save().
Save(employee, d) ==
    /\ pc = "idle"
    /\ Len(db.assignments) < MaxSingles
    /\ LET v == validate(NewAssignment(Len(db.assignments) + 1, employee, d), db)
       IN  IF v.throws
           THEN /\ last' = [op |-> "save", doc |-> v.doc, outcome |-> "OverlapConflict"]
                /\ UNCHANGED <<db, committed>>
           ELSE /\ last' = [op |-> "save", doc |-> v.doc, outcome |-> "ok"]
                /\ db' = WriteDoc(db, v.doc)
                /\ committed' = db'
    /\ UNCHANGED <<pc, employees, data, docs_name, bulkDocs, grantVars, calcVars>>

\* A user submits a draft: Document.submit().  An exception rolls the
\* request back.
Submit(name, failAt) ==
    /\ pc = "idle"
    /\ name \in DOMAIN db.assignments
    /\ db.assignments[name].docstatus = 0
    /\ LET v == validate(db.assignments[name], db)
           r == on_submit(v.doc, db, failAt)
       IN  IF v.throws
           THEN /\ last' = [op |-> "submit", doc |-> v.doc, outcome |-> "OverlapConflict"]
                /\ UNCHANGED <<db, committed>>
           ELSE IF r.throws
           THEN /\ last' = [op |-> "submit", doc |-> v.doc, outcome |-> "AllocationRefused"]
                /\ UNCHANGED <<db, committed>>
           ELSE /\ last' = [op |-> "submit", doc |-> v.doc, outcome |-> "ok"]
                /\ db' = r.store
                /\ committed' = db'
    /\ UNCHANGED <<pc, employees, data, docs_name, bulkDocs, grantVars, calcVars>>

\* ---- create_assignment_for_multiple_employees

IsChosen(chosen, e) == e \in chosen

\* Lines 249-257: the call starts.
BulkStart(chosen, d) ==
    /\ pc = "idle"
    /\ chosen # {}
    /\ pc' = "loop"
    /\ employees' = SelectSeq(EmployeeOrder, LAMBDA e : IsChosen(chosen, e))
    /\ data' = d
    /\ docs_name' = <<>>
    /\ bulkDocs' = {}
    /\ last' = NoRequest
    /\ UNCHANGED <<db, committed, grantVars, calcVars>>

\* The assignment of lines 259-266 for the employee at the head of the list.
BulkAssignment == NewAssignment(Len(db.assignments) + 1, Head(employees), data)

\* Line 267: assignment.save() runs validate(), which throws; the exception
\* is raised outside the try block and leaves the function.  The request is
\* rolled back to the last commit.
BulkSaveThrows ==
    /\ pc = "loop"
    /\ employees # <<>>
    /\ LET v == validate(BulkAssignment, db)
       IN  /\ v.throws
           /\ last' = [op |-> "bulk", doc |-> v.doc, outcome |-> "OverlapConflict"]
    /\ pc' = "aborted"
    /\ db' = committed
    /\ UNCHANGED <<committed, employees, data, docs_name, bulkDocs, grantVars, calcVars>>

\* Lines 267-271: save() inserts the draft; submit() writes docstatus 1 and
\* on_submit() raises a ValidationError, which is caught: the loop goes on
\* with what the failed submit has written still in the transaction.
BulkSubmitThrows(failAt) ==
    /\ pc = "loop"
    /\ employees # <<>>
    /\ failAt > 0
    /\ LET v == validate(BulkAssignment, db)
           r == on_submit(v.doc, WriteDoc(db, v.doc), failAt)
       IN  /\ ~v.throws
           /\ r.throws
           /\ db' = r.store
           /\ bulkDocs' = bulkDocs \cup {v.doc.name}
           /\ last' = [op |-> "bulk", doc |-> v.doc, outcome |-> "AllocationRefused"]
    /\ employees' = Tail(employees)
    /\ UNCHANGED <<pc, committed, data, docs_name, grantVars, calcVars>>

\* Lines 267-275: save(), submit(), frappe.db.commit(), docs_name.append.
BulkSubmitted ==
    /\ pc = "loop"
    /\ employees # <<>>
    /\ LET v == validate(BulkAssignment, db)
           r == on_submit(v.doc, WriteDoc(db, v.doc), 0)
       IN  /\ ~v.throws
           /\ ~r.throws
           /\ db' = r.store
           /\ committed' = db'
           /\ docs_name' = Append(docs_name, v.doc.name)
           /\ bulkDocs' = bulkDocs \cup {v.doc.name}
           /\ last' = [op |-> "bulk", doc |-> v.doc, outcome |-> "ok"]
    /\ employees' = Tail(employees)
    /\ UNCHANGED <<pc, data, grantVars, calcVars>>

\* Line 277: return docs_name.
BulkReturn ==
    /\ pc = "loop"
    /\ employees = <<>>
    /\ pc' = "returned"
    /\ UNCHANGED <<db, committed, employees, data, docs_name, bulkDocs, last,
                   grantVars, calcVars>>

FailPoints == 0..Len(GrantedDetails)

StoreIdle ==
    /\ db = EmptyStore
    /\ committed = EmptyStore
    /\ pc = "idle"
    /\ employees = <<>>
    /\ data = <<>>
    /\ docs_name = <<>>
    /\ bulkDocs = {}
    /\ last = NoRequest

GrantIdle ==
    /\ flag = <<>>
    /\ allocs = {}
    /\ gpc = <<>>
    /\ gdoc = <<>>
    /\ gidx = <<>>
    /\ gpassed = {}
    /\ glate = {}

CalcIdle ==
    /\ cin = <<>>
    /\ cout = NoResult

Init == StoreIdle /\ GrantIdle /\ CalcIdle

Next ==
    \/ \E e \in EmployeeNames, d \in AssignmentData : Save(e, d)
    \/ \E n \in 1..MaxSingles, k \in FailPoints : Submit(n, k)
    \/ \E c \in SUBSET EmployeeNames, d \in AssignmentData : BulkStart(c, d)
    \/ BulkSaveThrows
    \/ \E k \in FailPoints : BulkSubmitThrows(k)
    \/ BulkSubmitted
    \/ BulkReturn

Spec == Init /\ [][Next]_vars

\* ---- SpecCalc

InitCalc ==
    /\ StoreIdle
    /\ GrantIdle
    /\ \E t \in SampleAnnualTenths, ld \in CalcLeaveTypes, j \in SampleDates,
          b \in Bases, f \in SampleDates, e \in SampleDates, n \in SampleDates :
            /\ cin = CalcInput(t, ld, j, b, f, e, n)
            /\ CalcInputOK(cin)
    /\ cout = NoResult

SpecCalc == InitCalc /\ [][Calculate]_vars

-----------------------------------------------------------------------------
(* SpecGrant: grant_leave_alloc_for_employee called by several requests.   *)
(* Each request loads the assignment (reading leaves_allocated), tests the *)
(* value it loaded, saves one allocation per policy detail and then sets   *)
(* the flag; the steps of different requests interleave.                   *)

MaxRequests == 2
Requests == 1..MaxRequests

\* The submitted assignments the requests are made on.
GrantAssignments ==
    << [NewAssignment(1, "EMP-1", [assignment_based_on |-> "Leave Period",
            effective_from |-> Date(2023, 1, 1), effective_to |-> Date(2023, 12, 31),
            leave_period |-> "LP-2023"]) EXCEPT !.docstatus = 1],
       [NewAssignment(2, "EMP-2", [assignment_based_on |-> NoBasis,
            effective_from |-> Date(2023, 1, 1), effective_to |-> Date(2023, 12, 31),
            leave_period |-> "LP-2023"]) EXCEPT !.docstatus = 1] >>

Completed(a) == {q \in Requests : gpc[q] = "done" /\ gdoc[q] = a}

\* Mutant of GrantStart: leaves_allocated is not tested.
GrantStart_NoGuard(p, a) ==
    /\ gpc[p] = "idle"
    /\ gdoc' = [gdoc EXCEPT ![p] = a]
    /\ glate' = IF Completed(a) # {} THEN glate \cup {p} ELSE glate
    /\ gpc' = [gpc EXCEPT ![p] = "loop"]
    /\ gidx' = [gidx EXCEPT ![p] = 1]
    /\ gpassed' = IF flag[a] = 1 THEN gpassed ELSE gpassed \cup {p}
    /\ UNCHANGED <<flag, allocs, storeVars, calcVars>>

\* Lines 79-87: the request loads assignment a and tests leaves_allocated.
GrantStart(p, a) ==
    /\ gpc[p] = "idle"
    /\ gdoc' = [gdoc EXCEPT ![p] = a]
    /\ glate' = IF Completed(a) # {} THEN glate \cup {p} ELSE glate
    /\ IF flag[a] = 1
       THEN /\ gpc' = [gpc EXCEPT ![p] = "thrown"]
            /\ UNCHANGED <<gidx, gpassed>>
       ELSE /\ gpc' = [gpc EXCEPT ![p] = "loop"]
            /\ gidx' = [gidx EXCEPT ![p] = 1]
            /\ gpassed' = gpassed \cup {p}
    /\ UNCHANGED <<flag, allocs, storeVars, calcVars>>

\* Lines 89-101: one turn of the loop over the policy details.
GrantAllocate(p) ==
    /\ gpc[p] = "loop"
    /\ gidx[p] <= Len(LeavePolicyDetails)
    /\ LET detail == LeavePolicyDetails[gidx[p]]
       IN  allocs' =
               IF IsNotLwp(detail)
               THEN allocs \cup {[by |-> p, detail |-> gidx[p],
                                  allocation |-> create_leave_allocation(
                                      GrantAssignments[gdoc[p]], detail)]}
               ELSE allocs
    /\ gidx' = [gidx EXCEPT ![p] = @ + 1]
    /\ UNCHANGED <<flag, gpc, gdoc, gpassed, glate, storeVars, calcVars>>

\* Lines 127-128: saving the allocation raises; the exception leaves the
\* function and the request's own writes are rolled back.
GrantRefused(p) ==
    /\ gpc[p] = "loop"
    /\ gidx[p] <= Len(LeavePolicyDetails)
    /\ IsNotLwp(LeavePolicyDetails[gidx[p]])
    /\ gpc' = [gpc EXCEPT ![p] = "raised"]
    /\ allocs' = {x \in allocs : x.by # p}
    /\ UNCHANGED <<flag, gdoc, gidx, gpassed, glate, storeVars, calcVars>>

\* Mutant of GrantSetFlag: the flag is not written.
GrantSetFlag_NoFlag(p) ==
    /\ gpc[p] = "loop"
    /\ gidx[p] > Len(LeavePolicyDetails)
    /\ gpc' = [gpc EXCEPT ![p] = "done"]
    /\ UNCHANGED <<flag, allocs, gdoc, gidx, gpassed, glate, storeVars, calcVars>>

\* Lines 102-103: db_set("leaves_allocated", 1) and return.
GrantSetFlag(p) ==
    /\ gpc[p] = "loop"
    /\ gidx[p] > Len(LeavePolicyDetails)
    /\ flag' = [flag EXCEPT ![gdoc[p]] = 1]
    /\ gpc' = [gpc EXCEPT ![p] = "done"]
    /\ UNCHANGED <<allocs, gdoc, gidx, gpassed, glate, storeVars, calcVars>>

InitGrant ==
    /\ StoreIdle
    /\ CalcIdle
    /\ flag = [a \in DOMAIN GrantAssignments |-> 0]
    /\ allocs = {}
    /\ gpc = [p \in Requests |-> "idle"]
    /\ gdoc = [p \in Requests |-> 0]
    /\ gidx = [p \in Requests |-> 0]
    /\ gpassed = {}
    /\ glate = {}

NextGrant ==
    \/ \E p \in Requests, a \in DOMAIN GrantAssignments : GrantStart(p, a)
    \/ \E p \in Requests : GrantAllocate(p)
    \/ \E p \in Requests : GrantRefused(p)
    \/ \E p \in Requests : GrantSetFlag(p)

SpecGrant == InitGrant /\ [][NextGrant]_vars

-----------------------------------------------------------------------------
(* Properties of the document store (Spec).                                *)

\* Two confirmed assignments of one employee whose ranges meet, bounds
\* inclusive.
ConfirmedOverlap(store) ==
    \E a \in Docs(store), b \in Docs(store) :
        /\ a.name # b.name
        /\ a.employee = b.employee
        /\ a.docstatus = 1
        /\ b.docstatus = 1
        /\ a.effective_from <= b.effective_to
        /\ b.effective_from <= a.effective_to

\* C1: no two confirmed assignments of the same employee overlap, bounds
\* inclusive, in the transaction's view and in the committed store; and the
\* last validation was rejected by the overlap check exactly when some other
\* confirmed assignment of that employee meets the candidate's range.
C1_NoOverlappingConfirmedAssignments ==
    /\ ~ConfirmedOverlap(db)
    /\ ~ConfirmedOverlap(committed)
    /\ last.op # "none" =>
        ( last.outcome = "OverlapConflict"
          <=> \E a \in Docs(db) :
                /\ a.employee = last.doc.employee
                /\ a.name # last.doc.name
                /\ a.docstatus = 1
                /\ a.effective_to >= last.doc.effective_from
                /\ a.effective_from <= last.doc.effective_to )

\* Two confirmed assignments of one employee are committed.
C1_Witness ==
    \E a \in Docs(committed), b \in Docs(committed) :
        /\ a.name # b.name
        /\ a.employee = b.employee
        /\ a.docstatus = 1
        /\ b.docstatus = 1

\* C3: create_assignment_for_multiple_employees is never aborted by an
\* employee whose assignment fails validation, and what it returns is exactly
\* the assignments it created that are submitted with their leaves allocated.
C3_BulkSkipsFailedEmployees ==
    /\ pc # "aborted"
    /\ pc = "returned" =>
        {docs_name[i] : i \in DOMAIN docs_name}
          = {n \in bulkDocs : /\ db.assignments[n].docstatus = 1
                              /\ db.assignments[n].leaves_allocated = 1}

\* C7: every assignment that is submitted, and every assignment handed to
\* grant_leave_alloc_for_employee, has effective_from <= effective_to, and so
\* has every allocation made from it.
C7_EffectiveFromNotAfterTo ==
    /\ \A a \in Docs(db) : a.docstatus = 1 => a.effective_from <= a.effective_to
    /\ \A x \in db.allocations : x.from_date <= x.to_date
    /\ (last.op \in {"submit", "bulk"} /\ last.outcome \in {"ok", "AllocationRefused"})
         => last.doc.effective_from <= last.doc.effective_to

\* C10: when create_assignment_for_multiple_employees has returned, every
\* committed allocation of an assignment the call created belongs to an
\* assignment that is in the returned list and has leaves_allocated set.
C10_NoOrphanAllocationCommitted ==
    pc = "returned" =>
        \A x \in committed.allocations :
            x.leave_policy_assignment \in bulkDocs =>
                /\ \E i \in DOMAIN docs_name : docs_name[i] = x.leave_policy_assignment
                /\ committed.assignments[x.leave_policy_assignment].leaves_allocated = 1

-----------------------------------------------------------------------------
(* Properties of the concurrent grants (SpecGrant).                        *)

\* The allocations request p has in the store.
AllocationsBy(p) == {x \in allocs : x.by = p}

\* Two allocation records of one assignment for one leave type.
Duplicate(x, y) ==
    /\ x # y
    /\ x.allocation.leave_policy_assignment = y.allocation.leave_policy_assignment
    /\ x.allocation.leave_type = y.allocation.leave_type

\* C2: a call that has returned has set leaves_allocated and has made one
\* allocation for each policy detail that is not LWP; a call made after
\* another call on the same assignment has returned fails with the
\* already-allocated error and has no allocation record of its own.
C2_SecondGrantFails ==
    \A p \in Requests :
        /\ gpc[p] = "done" =>
              /\ flag[gdoc[p]] = 1
              /\ \A i \in DOMAIN LeavePolicyDetails :
                    LeaveTypeDetails(LeavePolicyDetails[i].leave_type).is_lwp # 1
                      => \E x \in AllocationsBy(p) :
                             x.allocation.leave_type = LeavePolicyDetails[i].leave_type
        /\ p \in glate => (gpc[p] = "thrown" /\ AllocationsBy(p) = {})

\* A call has returned and a later call on the same assignment has failed.
C2_Witness ==
    \E p \in Requests, q \in Requests :
        /\ gpc[q] = "done"
        /\ p \in glate
        /\ gdoc[p] = gdoc[q]
        /\ gpc[p] = "thrown"
        /\ AllocationsBy(q) # {}

\* C9: two allocation records of one assignment for one leave type come from
\* two different calls that both read leaves_allocated as unset, neither of
\* them made after a call on that assignment had returned.
C9_DoubleAllocationByInterleaving ==
    \A x \in allocs, y \in allocs :
        Duplicate(x, y) =>
            /\ x.by # y.by
            /\ {x.by, y.by} \subseteq gpassed
            /\ {x.by, y.by} \cap glate = {}

\* Two calls on one assignment have both returned and the assignment has two
\* allocation records for the same leave type.
C9_Witness ==
    \E x \in allocs, y \in allocs :
        /\ Duplicate(x, y)
        /\ gpc[x.by] = "done"
        /\ gpc[y.by] = "done"
        /\ flag[x.allocation.leave_policy_assignment] = 1

-----------------------------------------------------------------------------
(* Properties of the arithmetic (SpecCalc).                                *)

\* C4: get_pro_rated_leaves applied to a quantity q >= 0 returns r with
\* 0 <= r <= q.
C4_ProRationWithinBounds ==
    (cout.done /\ ~cout.pro_raised) =>
        (0 <= cout.pro_rated /\ cout.pro_rated <= cin.annual)

\* C5: get_new_leaves returns 0 for every compensatory leave type, and for
\* every earned leave type that is not compensatory when the assignment has
\* no basis.
C5_CompensatoryAndUnbasedEarnedGetZero ==
    cout.done =>
        /\ cin.leave_details.is_compensatory = 1
             => (~cout.raised /\ cout.new_leaves = 0)
        /\ (cin.leave_details.is_earned_leave = 1
              /\ cin.leave_details.is_compensatory # 1
              /\ cin.self.assignment_based_on = NoBasis)
             => (~cout.raised /\ cout.new_leaves = 0)

\* A compensatory leave type with a positive annual allocation, for an
\* employee who joined after effective_from, has been given 0.
C5_Witness ==
    /\ cout.done
    /\ cin.leave_details.is_compensatory = 1
    /\ cin.leave_details.is_earned_leave # 1
    /\ cin.annual > 0
    /\ cin.self.effective_from < cin.date_of_joining
    /\ cout.new_leaves = 0

IsPlain(leave_details) ==
    leave_details.is_earned_leave # 1 /\ leave_details.is_compensatory # 1

\* C6 as stated: for a plain leave type the quantity is the annual allocation
\* when the employee joined by effective_from, and otherwise the ceiling of
\* the exact product annual * (to - join + 1) / (to - from + 1).
C6_ExactCeiling ==
    (cout.done /\ IsPlain(cin.leave_details)) =>
        LET a == date_diff(cin.self.effective_to, cin.date_of_joining) + 1
            c == date_diff(cin.self.effective_to, cin.self.effective_from) + 1
        IN  /\ ~cout.raised
            /\ cout.new_leaves =
                 IF cin.date_of_joining <= cin.self.effective_from
                 THEN cin.annual
                 ELSE Scale * (-((-(cin.annual * a)) \div (c * Scale)))

\* C6, amended: for a plain leave type the quantity is the annual allocation
\* when the employee joined by effective_from, and otherwise the ceiling of
\* the product after it has been rounded to the float precision: the whole
\* number n with n - 1 + h <= product < n + h, h being half a unit of the
\* float precision.
C6_CeilingOfRoundedProduct ==
    (cout.done /\ IsPlain(cin.leave_details)) =>
        LET a == date_diff(cin.self.effective_to, cin.date_of_joining) + 1
            c == date_diff(cin.self.effective_to, cin.self.effective_from) + 1
            u == Scale \div Pow10(FloatPrecision)
            n == cout.new_leaves
        IN  /\ ~cout.raised
            /\ IF cin.date_of_joining <= cin.self.effective_from
               THEN n = cin.annual
               ELSE /\ n % Scale = 0
                    /\ 2 * c * (n - Scale) + u * c <= 2 * cin.annual * a
                    /\ 2 * cin.annual * a < 2 * c * n + u * c

\* 24 leaves over 1 January to 31 December for an employee who joined on
\* 1 July have become 13.
C6_Witness ==
    /\ cout.done
    /\ IsPlain(cin.leave_details)
    /\ cin.annual = 24 * Scale
    /\ cin.self.effective_from = Date(2023, 1, 1)
    /\ cin.self.effective_to = Date(2023, 12, 31)
    /\ cin.date_of_joining = Date(2023, 7, 1)
    /\ cout.new_leaves = 13 * Scale

\* The count of months between from_date and the reference date, before the
\* current month is considered; 0 when neither case of the code applies.
BaseMonths(ref, from_date) ==
    IF year(ref) = year(from_date) /\ month(ref) >= month(from_date)
    THEN month(ref) - month(from_date)
    ELSE IF year(ref) > year(from_date)
    THEN (12 - month(from_date)) + month(ref)
    ELSE 0

MonthlyRate ==
    get_monthly_earned_leave(cin.annual, cin.leave_details.earned_leave_frequency,
                             cin.leave_details.rounding)

\* C8 as stated: months_passed is the base count plus 1 whenever the
\* allocate-on-day predicate holds for the reference date (the current date
\* clamped to effective_to), in all three cases; the result is the monthly
\* rate times months_passed when that is positive and 0 otherwise.
C8_PlusOneOnReferenceDate ==
    cout.done =>
        LET ref  == IF cin.today > cin.self.effective_to
                    THEN cin.self.effective_to ELSE cin.today
            from == IF cin.date_of_joining > cin.self.effective_from
                    THEN cin.date_of_joining ELSE cin.self.effective_from
            mp   == BaseMonths(ref, from)
                    + (IF is_earned_leave_applicable_for_current_month(
                              cin.date_of_joining, cin.leave_details.allocate_on_day, ref)
                       THEN 1 ELSE 0)
        IN  /\ cout.months_passed = mp
            /\ cout.passed_months = IF mp > 0 THEN MonthlyRate * mp ELSE 0

\* C8, amended: months_passed is the base count plus 1 whenever the
\* allocate-on-day predicate holds for the current date (not clamped to
\* effective_to), in the two cases where the reference date is in from_date's
\* year at or after its month, or in a later year; it is 0 otherwise.  The
\* result is the monthly rate times months_passed when that is positive and
\* 0 otherwise.
C8_PlusOneOnCurrentDate ==
    cout.done =>
        LET ref  == IF cin.today > cin.self.effective_to
                    THEN cin.self.effective_to ELSE cin.today
            from == IF cin.date_of_joining > cin.self.effective_from
                    THEN cin.date_of_joining ELSE cin.self.effective_from
            counted == \/ (year(ref) = year(from) /\ month(ref) >= month(from))
                       \/ year(ref) > year(from)
            mp   == IF counted
                    THEN BaseMonths(ref, from)
                         + (IF is_earned_leave_applicable_for_current_month(
                                   cin.date_of_joining, cin.leave_details.allocate_on_day,
                                   cin.today)
                            THEN 1 ELSE 0)
                    ELSE 0
        IN  /\ cout.months_passed = mp
            /\ cout.passed_months = IF mp > 0 THEN MonthlyRate * mp ELSE 0

\* effective_from and the join date 1 January, the current date 15 April,
\* "First Day", 24 leaves a year: 4 months and 8 leaves.
C8_Witness ==
    /\ cout.done
    /\ cin.leave_details.is_earned_leave = 1
    /\ cin.leave_details.allocate_on_day = "First Day"
    /\ cin.annual = 24 * Scale
    /\ cin.self.effective_from = Date(2023, 1, 1)
    /\ cin.date_of_joining = Date(2023, 1, 1)
    /\ cin.self.effective_to = Date(2023, 12, 31)
    /\ cin.today = Date(2023, 4, 15)
    /\ cout.months_passed = 4
    /\ cout.passed_months = 8 * Scale

====
